---- MODULE Spec2Model ----
(***************************************************************************)
(* State-machine model of app.py: the Streamlit session state, the         *)
(* admission gate (check_quota_limits), generate_questions, and the        *)
(* sidebar handlers of the saved-context store.  One action is one script  *)
(* run triggered by one widget event; a handler that calls st.rerun() is   *)
(* modelled together with the run it triggers.                             *)
(*                                                                         *)
(* Time is counted in ticks, TicksPerSec ticks to the second.              *)
(***************************************************************************)
EXTENDS Integers, Sequences, FiniteSets, TLC

\* ---------------------------------------------------------------- bounds
TicksPerSec  == 2   \* clock resolution of the model
StartTime    == 3   \* wall clock (s) when the session starts
StoreWindow  == 1   \* seconds of fine-grained time explored by Spec
FineWindow   == 4   \* seconds of fine-grained time explored by SpecGate, per window
MaxSleeps    == 1   \* long waits explored by SpecGate
MaxCallTicks == 1   \* longest external call, in ticks
MaxGen       == 2   \* cap on generation_count

\* ------------------------------------------------------ program constants
MinInterval   == 3       \* "1 request per 3 seconds"
LockoutSecs   == 120     \* quota_reset_time = time.time() + 120
SecondsPerDay == 86400   \* strftime('%H:%M:%S') wraps every day

T          == TicksPerSec
SleepTicks == (LockoutSecs - 1) * T   \* a wait just short of the lockout

\* ------------------------------------------------------------ value sets
None       == "None"          \* Python None for names and keys
NoReset    == 0               \* quota_reset_time None (falsy, as 0 would be)
Unreadable == "<unreadable>"  \* a file whose reader raises

NoUpload == [name |-> None, body |-> None]
Files ==
  { [name |-> "a.txt", body |-> "x"],
    [name |-> "a.txt", body |-> "y"],
    [name |-> "b.txt", body |-> "y"],
    [name |-> "b.txt", body |-> " "],
    [name |-> "c.pdf", body |-> Unreadable] }

ApiKeys == {"k"}

\* error messages of the external call, as sequences of words
Messages ==
  { <<"HTTP", "429">>, <<"Quota", "reached">>, <<"limit", "EXCEEDED">>,
    <<"deadline", "timeout">> }

Responses ==
  { [type |-> "text", text |-> "Q1", msg |-> <<>>],
    [type |-> "text", text |-> "", msg |-> <<>>] }
  \cup { [type |-> "error", text |-> "", msg |-> m] : m \in Messages }

VARIABLES
  conversation_history,  \* dict: key -> saved context
  current_context,       \* str
  current_file_name,     \* str | None
  api_key,               \* str | None
  generation_count,      \* int
  last_request_time,     \* float, in ticks
  quota_reset_time,      \* float | None, in ticks
  uploaded_file,         \* value of the st.file_uploader widget
  model_cache,           \* st.cache_resource entry of get_generative_model(api_key)
  now,                   \* time.time(), in ticks
  last_run               \* what the script run of this step did (observation)

vars == << conversation_history, current_context, current_file_name, api_key,
           generation_count, last_request_time, quota_reset_time,
           uploaded_file, model_cache, now, last_run >>

store_vars == << conversation_history, current_context, current_file_name >>
gate_vars  == << last_request_time, quota_reset_time >>

\* ------------------------------------------------------------- helpers
\* str.strip() on the texts of the model
Strip(s) == IF s = " " THEN "" ELSE s

\* str.lower() on the words of the model
Lower(w) ==
  CASE w = "Quota"    -> "quota"
    [] w = "EXCEEDED" -> "exceeded"
    [] w = "HTTP"     -> "http"
    [] OTHER          -> w

\* `sub in s` at word granularity
Contains(s, sub) == \E i \in 1..Len(s) : s[i] = sub

LowerStr(s) == [i \in 1..Len(s) |-> Lower(s[i])]

\* int(x) of a non-negative duration given in ticks: whole seconds
IntSecs(ticks) == ticks \div T

\* the observation record of a run
Run(kind) ==
  [ kind |-> kind, key |-> <<None, 0>>, ok |-> FALSE, gate |-> "-", wait |-> 0,
    dispatched |-> FALSE, outcome |-> "-", msg |-> <<>>, at |-> now,
    lock |-> NoReset ]

Idle == [Run("none") EXCEPT !.at = 0]

\* extract_text and the readers: stripped text, or None when the reader raises
extract_text(f) ==
  IF f = NoUpload THEN None
  ELSE IF f.body = Unreadable THEN None
  ELSE Strip(f.body)

Truthy(s) == s # None /\ s # ""

\* the upload block of the main column: runs at the end of every script run
\* (lines 376, 402-408); yields the pair <<current_context, current_file_name>>
UploadBlock(key, file, ctx, fname) ==
  IF key # None /\ file # NoUpload /\ Truthy(extract_text(file))
  THEN << extract_text(file), file.name >>
  ELSE << ctx, fname >>

Init ==
  /\ conversation_history = << >>
  /\ current_context = ""
  /\ current_file_name = None
  /\ api_key = None
  /\ generation_count = 0
  /\ last_request_time = 0
  /\ quota_reset_time = NoReset
  /\ uploaded_file = NoUpload
  /\ model_cache = "uncached"
  /\ now = StartTime * T
  /\ last_run = Idle

\* ------------------------------------------------------------- the clock
Tick(window) ==
  /\ ((now - StartTime * T) % SleepTicks) < window * T
  /\ now' = now + 1
  /\ last_run' = Idle
  /\ UNCHANGED << store_vars, api_key, generation_count, gate_vars,
                  uploaded_file, model_cache >>

Sleep ==
  /\ now + SleepTicks <= StartTime * T + MaxSleeps * SleepTicks + FineWindow * T
  /\ now' = now + SleepTicks
  /\ last_run' = Idle
  /\ UNCHANGED << store_vars, api_key, generation_count, gate_vars,
                  uploaded_file, model_cache >>

\* ------------------------------------------------------ admission gate
\* check_quota_limits() at time t with the session's last_request_time and
\* quota_reset_time; field quota_reset_time is the value it leaves behind
check_quota_limits_open(t, last, q) ==          \* spacing test off by one tick
  LET q1 == IF q # NoReset /\ t >= q THEN NoReset ELSE q IN
  IF q # NoReset /\ t < q
  THEN [ok |-> FALSE, gate |-> "Locked", wait |-> IntSecs(q - t), quota_reset_time |-> q]
  ELSE IF t - last <= MinInterval * T
  THEN [ok |-> FALSE, gate |-> "Refused",
        wait |-> IntSecs(MinInterval * T - (t - last)), quota_reset_time |-> q1]
  ELSE [ok |-> TRUE, gate |-> "Admitted", wait |-> 0, quota_reset_time |-> q1]

check_quota_limits_late(t, last, q) ==          \* still locked at the reset time
  LET q1 == IF q # NoReset /\ t > q THEN NoReset ELSE q IN
  IF q # NoReset /\ t <= q
  THEN [ok |-> FALSE, gate |-> "Locked", wait |-> IntSecs(q - t), quota_reset_time |-> q]
  ELSE IF t - last < MinInterval * T
  THEN [ok |-> FALSE, gate |-> "Refused",
        wait |-> IntSecs(MinInterval * T - (t - last)), quota_reset_time |-> q1]
  ELSE [ok |-> TRUE, gate |-> "Admitted", wait |-> 0, quota_reset_time |-> q1]

check_quota_limits_eager(t, last, q) ==         \* clears the reset before testing it
  IF q # NoReset /\ t < q
  THEN [ok |-> FALSE, gate |-> "Locked", wait |-> IntSecs(q - t),
        quota_reset_time |-> NoReset]
  ELSE IF t - last < MinInterval * T
  THEN [ok |-> FALSE, gate |-> "Refused",
        wait |-> IntSecs(MinInterval * T - (t - last)), quota_reset_time |-> NoReset]
  ELSE [ok |-> TRUE, gate |-> "Admitted", wait |-> 0, quota_reset_time |-> NoReset]

check_quota_limits(t, last, q) ==
  LET q1 == IF q # NoReset /\ t >= q THEN NoReset ELSE q IN
  IF q # NoReset /\ t < q
  THEN [ok |-> FALSE, gate |-> "Locked", wait |-> IntSecs(q - t), quota_reset_time |-> q]
  ELSE IF t - last < MinInterval * T
  THEN [ok |-> FALSE, gate |-> "Refused",
        wait |-> IntSecs(MinInterval * T - (t - last)), quota_reset_time |-> q1]
  ELSE [ok |-> TRUE, gate |-> "Admitted", wait |-> 0, quota_reset_time |-> q1]

\* --------------------------------------------------- question generation
\* the test of the except block on str(e)
IsQuotaError_cased(msg) ==                      \* .lower() forgotten
  Contains(msg, "429") \/ Contains(msg, "quota") \/ Contains(msg, "exceeded")

IsQuotaError(msg) ==
  \/ Contains(msg, "429")
  \/ Contains(LowerStr(msg), "quota")
  \/ Contains(LowerStr(msg), "exceeded")

\* get_generative_model(api_key): the cached value, or a fresh initialisation
ModelInits == IF model_cache = "uncached" THEN {"model", "none"} ELSE {model_cache}

\* generate_questions when the gate refuses: warning, return None
Refused(chk) ==
  [ output |-> None, last |-> last_request_time, quota |-> chk.quota_reset_time,
    cache |-> model_cache, done |-> now,
    run |-> [Run("generate") EXCEPT !.lock = quota_reset_time, !.gate = chk.gate, !.wait = chk.wait,
               !.outcome = IF chk.gate = "Locked" THEN "Locked" ELSE "RateLimited"] ]

\* generate_questions when no model could be initialised: return None
NoModel(chk) ==
  [ output |-> None, last |-> last_request_time, quota |-> chk.quota_reset_time,
    cache |-> "none", done |-> now,
    run |-> [Run("generate") EXCEPT !.lock = quota_reset_time, !.gate = chk.gate,
               !.outcome = "ModelUnavailable"] ]

\* generate_questions from the recording of the request time on: the external
\* call answers r after d ticks
Dispatched_late(chk, r, d) ==                   \* request time recorded after the call
  LET quota == r.type = "error" /\ IsQuotaError(r.msg) IN
  [ output |-> IF r.type = "text" THEN r.text ELSE None,
    last   |-> now + d,
    quota  |-> IF quota THEN now + d + LockoutSecs * T ELSE chk.quota_reset_time,
    cache  |-> "model", done |-> now + d,
    run |-> [Run("generate") EXCEPT !.lock = quota_reset_time, !.gate = chk.gate, !.dispatched = TRUE,
               !.msg = r.msg,
               !.outcome = IF r.type = "text"
                           THEN IF Truthy(r.text) THEN "Success" ELSE "EmptyResponse"
                           ELSE IF quota THEN "QuotaExceeded" ELSE "GenerationFailed"] ]

Dispatched(chk, r, d) ==
  LET quota == r.type = "error" /\ IsQuotaError(r.msg) IN
  [ output |-> IF r.type = "text" THEN r.text ELSE None,
    last   |-> now,
    quota  |-> IF quota THEN now + d + LockoutSecs * T ELSE chk.quota_reset_time,
    cache  |-> "model", done |-> now + d,
    run |-> [Run("generate") EXCEPT !.lock = quota_reset_time, !.gate = chk.gate, !.dispatched = TRUE,
               !.msg = r.msg,
               !.outcome = IF r.type = "text"
                           THEN IF Truthy(r.text) THEN "Success" ELSE "EmptyResponse"
                           ELSE IF quota THEN "QuotaExceeded" ELSE "GenerationFailed"] ]

generate_questions(m, r, d) ==
  LET chk == check_quota_limits(now, last_request_time, quota_reset_time) IN
  IF ~chk.ok THEN Refused(chk)
  ELSE IF m = "none" THEN NoModel(chk)
  ELSE Dispatched(chk, r, d)

\* the generate_btn handler's counter: `if output: generation_count += 1`
CountAfter_always(output) == generation_count + 1   \* counts every click

CountAfter(output) ==
  IF Truthy(output) THEN generation_count + 1 ELSE generation_count

\* a click on "Generate Questions"; the button exists only with an API key
\* and a non-blank context
GenerateClick ==
  /\ api_key # None
  /\ Strip(current_context) # ""
  /\ \E m \in ModelInits, r \in Responses, d \in 1..MaxCallTicks :
       LET g == generate_questions(m, r, d) IN
       /\ CountAfter(g.output) <= MaxGen
       /\ generation_count' = CountAfter(g.output)
       /\ last_request_time' = g.last
       /\ quota_reset_time' = g.quota
       /\ model_cache' = g.cache
       /\ now' = g.done
       /\ last_run' = g.run
  /\ UNCHANGED << store_vars, api_key, uploaded_file >>

\* ------------------------------------------------- saved-context store
\* f"{current_file_name}_{datetime.now().strftime('%H:%M:%S')}": the file name
\* and the second of the day
ContextKey(fname, t) == << fname, (t \div T) % SecondsPerDay >>

\* the dict entry written by "Save Context"; timestamp is
\* strftime("%Y-%m-%d %H:%M:%S"), the absolute second
ContextEntry(fname, ctx, t) ==
  [ file |-> fname, content |-> ctx, timestamp |-> t \div T, size |-> Len(ctx) ]

\* d[key] = entry
Put(h, key, entry) ==
  [k \in DOMAIN h \cup {key} |-> IF k = key THEN entry ELSE h[k]]

\* the "Save Context" handler: the history it leaves
SaveHandler(h, fname, ctx, t) ==
  IF Strip(ctx) # ""
  THEN Put(h, ContextKey(fname, t), ContextEntry(fname, ctx, t))
  ELSE h

\* the "Load" handler: the pair <<current_context, current_file_name>> it sets
LoadHandler(entry) == << entry.content, entry.file >>

\* the "Delete" handler; the button of a key exists only while the loop over
\* conversation_history.items() meets the key
DeleteHandler_file(h, key) ==                   \* drops every entry of the file
  [k \in {j \in DOMAIN h : j[1] # key[1]} |-> h[k]]

DeleteHandler(h, key) ==
  IF key \in DOMAIN h
  THEN [k \in DOMAIN h \ {key} |-> h[k]]
  ELSE h

\* the keys a click can name
Seconds == (StartTime - 1) .. (StartTime + StoreWindow + 1)
KeyUniverse == { << f.name, s >> : f \in Files, s \in Seconds }

\* the API key is typed into the sidebar
SetApiKey ==
  \E k \in ApiKeys :
    /\ api_key # k
    /\ api_key' = k
    /\ LET cur == UploadBlock(k, uploaded_file, current_context, current_file_name) IN
         /\ current_context' = cur[1]
         /\ current_file_name' = cur[2]
    /\ last_run' = Run("key")
    /\ UNCHANGED << conversation_history, generation_count, gate_vars,
                    uploaded_file, model_cache, now >>

\* a file is put into, or taken out of, the uploader (rendered only with a key)
UploadFile ==
  \E f \in Files \cup {NoUpload} :
    /\ api_key # None
    /\ f # uploaded_file
    /\ uploaded_file' = f
    /\ LET cur == UploadBlock(api_key, f, current_context, current_file_name) IN
         /\ current_context' = cur[1]
         /\ current_file_name' = cur[2]
    /\ last_run' = Run("upload")
    /\ UNCHANGED << conversation_history, api_key, generation_count, gate_vars,
                    model_cache, now >>

\* a click on "Save Context"
SaveContext ==
  LET cur == UploadBlock(api_key, uploaded_file, current_context, current_file_name) IN
  /\ conversation_history' =
       SaveHandler(conversation_history, current_file_name, current_context, now)
  /\ current_context' = cur[1]
  /\ current_file_name' = cur[2]
  /\ last_run' = [Run("save") EXCEPT !.ok = (Strip(current_context) # ""),
                    !.key = ContextKey(current_file_name, now)]
  /\ UNCHANGED << api_key, generation_count, gate_vars, uploaded_file,
                  model_cache, now >>

\* a click on "Clear All"
ClearAll ==
  LET cur == UploadBlock(api_key, uploaded_file, "", current_file_name) IN
  /\ conversation_history' = << >>
  /\ current_context' = cur[1]
  /\ current_file_name' = cur[2]
  /\ last_run' = Run("clear")
  /\ UNCHANGED << api_key, generation_count, gate_vars, uploaded_file,
                  model_cache, now >>

\* a click on the "Load" button of a saved context, and the rerun it asks for
Load ==
  \E key \in DOMAIN conversation_history :
    LET set == LoadHandler(conversation_history[key])
        cur == UploadBlock(api_key, uploaded_file, set[1], set[2]) IN
    /\ current_context' = cur[1]
    /\ current_file_name' = cur[2]
    /\ last_run' = [Run("load") EXCEPT !.ok = TRUE, !.key = key]
    /\ UNCHANGED << conversation_history, api_key, generation_count, gate_vars,
                    uploaded_file, model_cache, now >>

\* a click on the "Delete" button of a key, and the rerun it asks for
Delete ==
  \E key \in KeyUniverse :
    LET cur == UploadBlock(api_key, uploaded_file, current_context, current_file_name) IN
    /\ conversation_history' = DeleteHandler(conversation_history, key)
    /\ current_context' = cur[1]
    /\ current_file_name' = cur[2]
    /\ last_run' = [Run("delete") EXCEPT !.ok = (key \in DOMAIN conversation_history),
                      !.key = key]
    /\ UNCHANGED << api_key, generation_count, gate_vars, uploaded_file,
                    model_cache, now >>

\* ------------------------------------------------------- specifications
Next ==
  \/ Tick(StoreWindow)
  \/ SetApiKey
  \/ UploadFile
  \/ SaveContext
  \/ ClearAll
  \/ Load
  \/ Delete
  \/ GenerateClick

Spec == Init /\ [][Next]_vars

\* the sidebar and the uploader alone: no generation
NextStore ==
  \/ Tick(StoreWindow)
  \/ SetApiKey
  \/ UploadFile
  \/ SaveContext
  \/ ClearAll
  \/ Load
  \/ Delete

SpecStore == Init /\ [][NextStore]_vars

\* the gate over its whole time scale, with the one sidebar button that resets
\* session state
NextGate ==
  \/ Tick(FineWindow)
  \/ Sleep
  \/ SetApiKey
  \/ UploadFile
  \/ ClearAll
  \/ GenerateClick

SpecGate == Init /\ [][NextGate]_vars

\* ================================================================ claims
IsGenerate(run) == run.kind = "generate"

\* C1: with no lockout active, a generation attempt at time now is admitted
\* exactly when now - last_request_time >= 3 s (3.0 s included); otherwise it
\* is refused with the remaining wait rounded down to whole seconds, and makes
\* no external call and no change to the session state.
C1_Spacing ==
  [][ (IsGenerate(last_run') /\ (quota_reset_time = NoReset \/ now >= quota_reset_time)) =>
        LET elapsed == now - last_request_time
            rem     == MinInterval * T - elapsed
            run     == last_run' IN
        /\ (run.gate = "Admitted") <=> (elapsed >= MinInterval * T)
        /\ run.gate # "Admitted" =>
             /\ run.gate = "Refused"
             /\ run.wait * T <= rem /\ rem < (run.wait + 1) * T
             /\ ~run.dispatched
             /\ now' = now
             /\ last_request_time' = last_request_time
             /\ generation_count' = generation_count ]_vars

\* C1 witness: a click 1.5 s after the last request is refused with "Wait 1s"
C1_Witness ==
  /\ IsGenerate(last_run)
  /\ last_run.gate = "Refused"
  /\ last_run.lock = NoReset
  /\ 2 * (last_run.at - last_request_time) = MinInterval * T
  /\ last_run.wait = 1
  /\ ~last_run.dispatched

\* C2: a quota error at time t sets quota_reset_time to t + 120 s; every check
\* before that time answers Locked and dispatches nothing; a check at or after
\* it, the spacing rule satisfied, answers Admitted and drops the lockout (only
\* a new quota error of the admitted call sets a new one).
C2_Lockout ==
  [][ IsGenerate(last_run') =>
        LET run == last_run' IN
        /\ run.outcome = "QuotaExceeded" => quota_reset_time' = now' + LockoutSecs * T
        /\ (quota_reset_time # NoReset /\ now < quota_reset_time) =>
             /\ run.gate = "Locked"
             /\ ~run.dispatched
             /\ now' = now
             /\ quota_reset_time' = quota_reset_time
        /\ ( /\ quota_reset_time # NoReset
             /\ now >= quota_reset_time
             /\ now - last_request_time >= MinInterval * T ) =>
             /\ run.gate = "Admitted"
             /\ \/ quota_reset_time' = NoReset
                \/ run.outcome = "QuotaExceeded" ]_vars

\* C2 witness: a check made exactly 120 s after the quota error is admitted and
\* leaves no lockout
C2_Witness ==
  /\ IsGenerate(last_run)
  /\ last_run.lock # NoReset
  /\ last_run.at = last_run.lock
  /\ last_run.gate = "Admitted"
  /\ quota_reset_time = NoReset

\* C3 as stated: the admission check never changes last_request_time or
\* quota_reset_time (the only writers in a generation attempt being the record
\* of the dispatch and the record of a quota error).
C3_Pure ==
  [][ IsGenerate(last_run') =>
        /\ last_request_time' = last_request_time \/ last_run'.dispatched
        /\ quota_reset_time' = quota_reset_time \/ last_run'.outcome = "QuotaExceeded"
    ]_vars

\* C3 amended: the admission check never changes last_request_time, and it
\* leaves quota_reset_time unchanged except that a check made at or after
\* quota_reset_time resets it to none.
C3_CheckEffect ==
  [][ IsGenerate(last_run') =>
        /\ \/ last_request_time' = last_request_time
           \/ last_run'.dispatched /\ last_request_time' = now
        /\ \/ quota_reset_time' = quota_reset_time
           \/ last_run'.outcome = "QuotaExceeded"
           \/ /\ quota_reset_time # NoReset
              /\ now >= quota_reset_time
              /\ quota_reset_time' = NoReset ]_vars

\* C3 witness: a check after the lockout ran out has reset quota_reset_time,
\* and the call it admitted succeeded
C3_Witness ==
  /\ IsGenerate(last_run)
  /\ last_run.lock # NoReset
  /\ last_run.at > last_run.lock
  /\ last_run.outcome = "Success"
  /\ quota_reset_time = NoReset

\* C4: last_request_time is written only by a dispatched attempt, with the
\* time of the dispatch and whatever the call's outcome; a refused attempt and
\* one without a model leave it unchanged; an attempt within 3 s of
\* last_request_time is never admitted.
C4_RecordOnDispatch ==
  [][ IsGenerate(last_run') =>
        /\ IF last_run'.dispatched
           THEN last_request_time' = now /\ now' > now
           ELSE last_request_time' = last_request_time /\ now' = now
        /\ last_run'.outcome \in {"ModelUnavailable", "RateLimited", "Locked"}
             => ~last_run'.dispatched
        /\ now - last_request_time < MinInterval * T
             => last_run'.gate # "Admitted" /\ ~last_run'.dispatched ]_vars

\* C4 witness: a dispatched call has failed, and last_request_time is the time
\* of its dispatch, earlier than the failure
C4_Witness ==
  /\ IsGenerate(last_run)
  /\ last_run.dispatched
  /\ last_run.outcome = "GenerationFailed"
  /\ last_request_time = last_run.at
  /\ now > last_request_time

\* the quota words of C5, looked for in the message without regard to case
QuotaWords == {"429", "quota", "exceeded"}
ReportsQuota(msg) == \E i \in 1..Len(msg) : Lower(msg[i]) \in QuotaWords

\* C5: a failed call starts a 120 s lockout exactly when its message names a
\* quota word; the attempt is then QuotaExceeded and a retry before the reset
\* time is Locked; any other failure is GenerationFailed and leaves
\* quota_reset_time as the admission check left it.
C5_QuotaLockout ==
  [][ IsGenerate(last_run') =>
        LET run == last_run' IN
        /\ (run.dispatched /\ run.msg # << >>) =>
             IF ReportsQuota(run.msg)
             THEN /\ run.outcome = "QuotaExceeded"
                  /\ quota_reset_time' = now' + LockoutSecs * T
             ELSE /\ run.outcome = "GenerationFailed"
                  /\ quota_reset_time' = NoReset
        /\ run.outcome \in {"QuotaExceeded", "GenerationFailed"}
             => run.dispatched /\ run.msg # << >>
        /\ (quota_reset_time # NoReset /\ now < quota_reset_time)
             => run.gate = "Locked" /\ run.outcome = "Locked" ]_vars

\* C5 witness: a "429" error gave QuotaExceeded and a lockout 120 s long
C5_Witness ==
  /\ IsGenerate(last_run)
  /\ last_run.msg = <<"HTTP", "429">>
  /\ last_run.outcome = "QuotaExceeded"
  /\ quota_reset_time = now + LockoutSecs * T

\* C6 as stated: generation_count grows by 1 with every external call that
\* returned a response, by 0 with every other attempt, and never decreases.
C6_CountsResponses ==
  [][ /\ generation_count' >= generation_count
      /\ IsGenerate(last_run') =>
           generation_count' = generation_count +
             (IF last_run'.outcome \in {"Success", "EmptyResponse"} THEN 1 ELSE 0)
    ]_vars

\* C6 amended: generation_count grows by 1 with every external call that
\* returned non-empty text, by 0 with every other attempt (refused, failed, or
\* answered with empty text), and never decreases.
C6_CountsText ==
  [][ /\ generation_count' >= generation_count
      /\ IsGenerate(last_run') =>
           generation_count' = generation_count +
             (IF last_run'.outcome = "Success" THEN 1 ELSE 0)
      /\ ~IsGenerate(last_run') => generation_count' = generation_count
    ]_vars

\* C6 witness: the second successful generation has been counted
C6_Witness ==
  /\ IsGenerate(last_run)
  /\ last_run.outcome = "Success"
  /\ generation_count = 2

\* C7: every successful save adds a new entry: its key was not in the store.
C7_UniqueKeys ==
  [][ (last_run'.kind = "save" /\ last_run'.ok) =>
        /\ last_run'.key \notin DOMAIN conversation_history
        /\ Cardinality(DOMAIN conversation_history')
             = Cardinality(DOMAIN conversation_history) + 1 ]_vars

\* C8: after a load the current text and file name are those of the loaded
\* entry, which is still in the store.
C8_RoundTrip ==
  last_run.kind = "load" =>
    /\ last_run.key \in DOMAIN conversation_history
    /\ current_context = conversation_history[last_run.key].content
    /\ current_file_name = conversation_history[last_run.key].file

\* C9: Clear All empties the store and the current text and leaves the
\* generation counter and the admission state unchanged.
C9_ClearAll ==
  [][ last_run'.kind = "clear" =>
        /\ DOMAIN conversation_history' = {}
        /\ current_context' = ""
        /\ generation_count' = generation_count
        /\ UNCHANGED gate_vars ]_vars

\* C10: a delete removes the entry of its key and no other, and changes
\* nothing when the key is not in the store; afterwards the key is absent.
C10_Delete ==
  [][ last_run'.kind = "delete" =>
        LET key == last_run'.key
            h   == conversation_history
            h2  == conversation_history' IN
        /\ DOMAIN h2 = DOMAIN h \ {key}
        /\ \A k \in DOMAIN h2 : h2[k] = h[k]
        /\ key \notin DOMAIN h => h2 = h
        /\ last_run'.ok <=> key \in DOMAIN h ]_vars

\* C10 witness: one of two saved contexts has been deleted, the other is kept
C10_Witness ==
  /\ last_run.kind = "delete"
  /\ last_run.ok
  /\ last_run.key \notin DOMAIN conversation_history
  /\ DOMAIN conversation_history # {}

====
